---- MODULE Spec2Model ----
(***************************************************************************)
(* The request middleware emitted by buildMiddlewareContent                *)
(* (src/src/generators/middleware-builder.ts).                             *)
(*                                                                         *)
(* Spec is one evaluation of middleware(request) at a time, for each of    *)
(* the four texts the builder can emit (rbac and multitenant on or off).   *)
(* SpecTenant is a direct call of extractSubdomain on a host header.       *)
(*                                                                         *)
(* A JavaScript string is a sequence of one-character strings, so that     *)
(* includes, split, startsWith and the two regular expressions are         *)
(* computed on the characters as the code computes them.  The JavaScript   *)
(* value null is Null, a sequence that is no string (its only element has  *)
(* four characters).                                                       *)
(***************************************************************************)
EXTENDS Integers, Sequences, FiniteSets, TLC

VARIABLES
    config,     \* the MiddlewareConfig the middleware text was built from
    request,    \* the NextRequest being handled: pathname, headers, cookies
    pc,         \* position of the evaluation inside middleware()
    tenant,     \* const tenant (line 77); Null while not assigned
    userRoles,  \* const userRoles (line 87); Null while not assigned
    decision,   \* the NextResponse returned by middleware()
    calls,      \* the helper functions called so far by this evaluation
    host,       \* argument of a direct call of extractSubdomain
    resolved,   \* [done, value]: the result of that call
    previous,   \* history: the evaluation before this one, when it is kept
    other,      \* a second evaluation of middleware(), suspended
    alone,      \* history: no other evaluation has run during this one
    handler,    \* the route handler the request is delivered to
    cli         \* the run of runCLI: position, effects, exit code

vars ==
    <<config, request, pc, tenant, userRoles, decision, calls, host, resolved,
      previous, other, alone, handler, cli>>

Null == <<"null">>

----------------------------------------------------------------------------
(* String literals of the source.                                          *)

S_localhost == <<"l", "o", "c", "a", "l", "h", "o", "s", "t">>
S_www == <<"w", "w", "w">>
S_login == <<"/", "l", "o", "g", "i", "n">>
S_register == <<"/", "r", "e", "g", "i", "s", "t", "e", "r">>
S_forgot == <<"/", "f", "o", "r", "g", "o", "t", "-", "p", "a", "s", "s", "w", "o", "r", "d">>
S_reset == <<"/", "r", "e", "s", "e", "t", "-", "p", "a", "s", "s", "w", "o", "r", "d">>
S_apiauth == <<"/", "a", "p", "i", "/", "a", "u", "t", "h">>
S_dashboard == <<"/", "d", "a", "s", "h", "b", "o", "a", "r", "d">>
S_profile == <<"/", "p", "r", "o", "f", "i", "l", "e">>
S_admin == <<"/", "a", "d", "m", "i", "n">>
S_mp == <<"/", "m", "p">>
S_mpSlash == <<"/", "m", "p", "/">>

----------------------------------------------------------------------------
(* String.prototype and RegExp, on sequences of characters.                *)

Digits == {"0", "1", "2", "3", "4", "5", "6", "7", "8", "9"}

LowerLetters ==
    {"a", "b", "c", "d", "e", "f", "g", "h", "i", "j", "k", "l", "m",
     "n", "o", "p", "q", "r", "s", "t", "u", "v", "w", "x", "y", "z"}

startsWith(s, p) ==
    Len(p) <= Len(s) /\ SubSeq(s, 1, Len(p)) = p

includes(s, sub) ==
    \E i \in 0..(Len(s) - Len(sub)) : SubSeq(s, i + 1, i + Len(sub)) = sub

\* s.split(sep) for a one-character separator: always at least one part.
RECURSIVE split(_, _)
split(s, sep) ==
    IF \A i \in 1..Len(s) : s[i] # sep
    THEN <<s>>
    ELSE LET i == CHOOSE k \in 1..Len(s) :
                      s[k] = sep /\ \A j \in 1..(k - 1) : s[j] # sep
         IN  <<SubSeq(s, 1, i - 1)>> \o split(SubSeq(s, i + 1, Len(s)), sep)

\* /^\d+$/.test(s)
testAllDigits(s) ==
    Len(s) >= 1 /\ \A i \in 1..Len(s) : s[i] \in Digits

\* /^[a-z0-9-]+$/.test(s)
testSlug(s) ==
    Len(s) >= 1 /\ \A i \in 1..Len(s) : s[i] \in LowerLetters \cup Digits \cup {"-"}

\* if (v) on a value of type string | null
truthy(v) == v # Null /\ v # <<>>

----------------------------------------------------------------------------
(* The subdomain resolver.                                                 *)


\* extractSubdomain without the test for numeric-only subdomains.
extractSubdomain_keepsNumeric(h) ==
    IF includes(h, S_localhost)
    THEN LET subdomain == split(h, ":")[1]
         IN  IF subdomain # S_localhost THEN subdomain ELSE Null
    ELSE LET parts == split(h, ".")
             potentialTenant == parts[1]
         IN  IF Len(parts) < 3 THEN Null
             ELSE IF potentialTenant = S_www THEN Null
             ELSE IF ~testSlug(potentialTenant) THEN Null
             ELSE potentialTenant

extractSubdomain(h) ==
    IF includes(h, S_localhost)
    THEN LET subdomain == split(h, ":")[1]
         IN  IF subdomain # S_localhost THEN subdomain ELSE Null
    ELSE LET parts == split(h, ".")
             potentialTenant == parts[1]
         IN  IF Len(parts) < 3 THEN Null
             ELSE IF potentialTenant = S_www \/ testAllDigits(potentialTenant) THEN Null
             ELSE IF ~testSlug(potentialTenant) THEN Null
             ELSE potentialTenant

----------------------------------------------------------------------------
(* Host headers: up to MaxLabels labels joined by ".", with or without a   *)
(* ":port".                                                                *)

MaxLabels == 3

L_acme == <<"a", "c", "m", "e">>
L_123 == <<"1", "2", "3">>
L_a1 == <<"a", "-", "1">>
L_Acme == <<"A", "c", "m", "e">>
L_example == <<"e", "x", "a", "m", "p", "l", "e">>
L_com == <<"c", "o", "m">>
P_3000 == <<"3", "0", "0", "0">>
P_80 == <<"8", "0">>

Labels == {L_acme, S_www, L_123, L_a1, L_Acme, S_localhost, L_example, L_com, <<>>}

Ports == {P_3000, P_80}

RECURSIVE join(_, _)
join(parts, sep) ==
    IF Len(parts) = 0 THEN <<>>
    ELSE IF Len(parts) = 1 THEN parts[1]
    ELSE parts[1] \o sep \o join(Tail(parts), sep)

HostsOf(labels, ports) ==
    LET names == {join(ls, <<".">>) :
                     ls \in UNION {[1..n -> labels] : n \in 0..MaxLabels}}
    IN  names \cup {n \o <<":">> \o p : n \in names, p \in ports}

\* ":localhost" is the header whose part before the port is empty.
Hosts == HostsOf(Labels, Ports) \cup {<<":">> \o S_localhost}

NoRequest == [pathname |-> Null, headers |-> [n \in {} |-> Null], cookies |-> [n \in {} |-> Null]]

NoDecision == [kind |-> "none"]

Unresolved == [done |-> FALSE, value |-> Null]

----------------------------------------------------------------------------
(* The shape of a host, read off its characters without split.            *)

CountChar(s, c) == Cardinality({i \in 1..Len(s) : s[i] = c})

FirstLabel(s) ==
    IF \A i \in 1..Len(s) : s[i] # "."
    THEN s
    ELSE SubSeq(s, 1, (CHOOSE k \in 1..Len(s) :
                           s[k] = "." /\ \A j \in 1..(k - 1) : s[j] # ".") - 1)

IsSlugChar(c) == c \in LowerLetters \cup Digits \cup {"-"}

IsSlug(s) == s # <<>> /\ \A i \in 1..Len(s) : IsSlugChar(s[i])

IsNumeric(s) == s # <<>> /\ \A i \in 1..Len(s) : s[i] \in Digits

\* label.domain.tld: two dots, no port, domain and tld not empty.
IsDot3(s) ==
    /\ CountChar(s, ".") = 2
    /\ CountChar(s, ":") = 0
    /\ s[Len(s)] # "."
    /\ \A i \in 1..(Len(s) - 1) : ~(s[i] = "." /\ s[i + 1] = ".")

Dot3(l, d, t) == l \o <<".">> \o d \o <<".">> \o t

H_acme_example_com == Dot3(L_acme, L_example, L_com)
H_acme_localhost_3000 == L_acme \o <<".">> \o S_localhost \o <<":">> \o P_3000
H_acme_localhost_com == Dot3(L_acme, S_localhost, L_com)
H_123_example_com == Dot3(L_123, L_example, L_com)

----------------------------------------------------------------------------
(* JavaScript values as the role extractor sees them: a value is a record  *)
(* [t, v] with t its type.  JSON.parse, JSON.stringify and                 *)
(* Buffer.from(_, 'base64').toString() are computed on the characters.     *)

JNull == [t |-> "null", v |-> <<>>]
JUndefined == [t |-> "undefined", v |-> <<>>]
JBool(b) == [t |-> "bool", v |-> b]
JNum(n) == [t |-> "num", v |-> n]
JStr(s) == [t |-> "str", v |-> s]
JArr(elems) == [t |-> "arr", v |-> elems]
JObj(members) == [t |-> "obj", v |-> members]

EmptyArray == JArr(<<>>)

\* ToBoolean
jsTruthy(x) ==
    CASE x.t \in {"null", "undefined"} -> FALSE
      [] x.t = "bool" -> x.v
      [] x.t = "num" -> x.v # 0
      [] x.t = "str" -> x.v # <<>>
      [] OTHER -> TRUE

\* x[key] for a key no prototype defines: a TypeError on null and undefined.
getProperty(x, key) ==
    IF x.t \in {"null", "undefined"}
    THEN [throws |-> TRUE, val |-> JUndefined]
    ELSE IF x.t = "obj" /\ \E i \in 1..Len(x.v) : x.v[i].k = key
    THEN [throws |-> FALSE,
          val |-> x.v[CHOOSE i \in 1..Len(x.v) : x.v[i].k = key].v]
    ELSE [throws |-> FALSE, val |-> JUndefined]

Ascii ==
    <<" ", "!", "\"", "#", "$", "%", "&", "'", "(", ")", "*", "+", ",", "-", ".", "/",
      "0", "1", "2", "3", "4", "5", "6", "7", "8", "9", ":", ";", "<", "=", ">", "?",
      "@", "A", "B", "C", "D", "E", "F", "G", "H", "I", "J", "K", "L", "M", "N", "O",
      "P", "Q", "R", "S", "T", "U", "V", "W", "X", "Y", "Z", "[", "\\", "]", "^", "_",
      "<backtick>", "a", "b", "c", "d", "e", "f", "g", "h", "i", "j", "k", "l", "m", "n", "o",
      "p", "q", "r", "s", "t", "u", "v", "w", "x", "y", "z", "{", "|", "}", "~">>

Base64Alphabet ==
    <<"A", "B", "C", "D", "E", "F", "G", "H", "I", "J", "K", "L", "M", "N", "O", "P",
      "Q", "R", "S", "T", "U", "V", "W", "X", "Y", "Z", "a", "b", "c", "d", "e", "f",
      "g", "h", "i", "j", "k", "l", "m", "n", "o", "p", "q", "r", "s", "t", "u", "v",
      "w", "x", "y", "z", "0", "1", "2", "3", "4", "5", "6", "7", "8", "9", "+", "/">>

\* Ascii holds "<backtick>" for the character 0x60, which a TLA+ string
\* cannot hold.  A character that is no printable ASCII character is kept
\* by its class: a control character below U+0020, a character from U+007F
\* to U+00FF, or a character above U+00FF (U+FFFD, which the decoder puts
\* for malformed bytes, is one).
ControlChar == "<control>"
Latin1Char == "<latin-1>"
WideChar == "<wide>"

isBase64Char(c) ==
    c \in {"-", "_"} \/ \E i \in 1..64 : Base64Alphabet[i] = c

base64Value(c) ==
    IF c = "-" THEN 62
    ELSE IF c = "_" THEN 63
    ELSE (CHOOSE i \in 1..64 : Base64Alphabet[i] = c) - 1

RECURSIVE sextetsToBytes(_)
sextetsToBytes(q) ==
    IF Len(q) < 2 THEN <<>>
    ELSE IF Len(q) = 2 THEN <<q[1] * 4 + q[2] \div 16>>
    ELSE IF Len(q) = 3
    THEN <<q[1] * 4 + q[2] \div 16, (q[2] % 16) * 16 + q[3] \div 4>>
    ELSE <<q[1] * 4 + q[2] \div 16,
           (q[2] % 16) * 16 + q[3] \div 4,
           (q[3] % 4) * 64 + q[4]>> \o sextetsToBytes(SubSeq(q, 5, Len(q)))

\* Buffer.from(s, 'base64'): both alphabets, no padding needed, characters
\* outside the alphabets skipped, "=" ending the data.
bufferFromBase64(s) ==
    LET data == IF \E i \in 1..Len(s) : s[i] = "="
                THEN SubSeq(s, 1, (CHOOSE i \in 1..Len(s) :
                         s[i] = "=" /\ \A j \in 1..(i - 1) : s[j] # "=") - 1)
                ELSE s
        kept == SelectSeq(data, isBase64Char)
    IN  sextetsToBytes([i \in 1..Len(kept) |-> base64Value(kept[i])])

\* The character of a byte below 0x80.
byteToChar(b) ==
    IF b >= 32 /\ b <= 126 THEN Ascii[b - 31]
    ELSE IF b = 9 THEN "\t"
    ELSE IF b = 10 THEN "\n"
    ELSE IF b = 13 THEN "\r"
    ELSE IF b < 32 THEN ControlChar
    ELSE Latin1Char

isContinuation(b) == b >= 128 /\ b <= 191

\* The UTF-8 decoder: a well-formed sequence of two bytes is a character up
\* to U+07FF (up to U+00FF when its first byte is 0xC2 or 0xC3), one of
\* three bytes a character above U+07FF, one of four bytes a surrogate
\* pair; a byte that starts no well-formed sequence is U+FFFD.
RECURSIVE utf8Decode(_, _)
utf8Decode(bytes, i) ==
    IF i > Len(bytes) THEN <<>>
    ELSE LET b == bytes[i]
             cont(k) == /\ i + k <= Len(bytes)
                        /\ \A j \in 1..k : isContinuation(bytes[i + j])
         IN  IF b < 128 THEN <<byteToChar(b)>> \o utf8Decode(bytes, i + 1)
             ELSE IF b >= 194 /\ b <= 223 /\ cont(1)
             THEN <<IF b <= 195 THEN Latin1Char ELSE WideChar>>
                      \o utf8Decode(bytes, i + 2)
             ELSE IF /\ b >= 224 /\ b <= 239 /\ cont(2)
                     /\ (b = 224 => bytes[i + 1] >= 160)
                     /\ (b = 237 => bytes[i + 1] <= 159)
             THEN <<WideChar>> \o utf8Decode(bytes, i + 3)
             ELSE IF /\ b >= 240 /\ b <= 244 /\ cont(3)
                     /\ (b = 240 => bytes[i + 1] >= 144)
                     /\ (b = 244 => bytes[i + 1] <= 143)
             THEN <<WideChar, WideChar>> \o utf8Decode(bytes, i + 4)
             ELSE <<WideChar>> \o utf8Decode(bytes, i + 1)

\* buffer.toString(): UTF-8.
bufferToString(bytes) == utf8Decode(bytes, 1)

\* A string the Headers class takes as a value: no character above U+00FF.
\* (JSON.stringify leaves no CR, LF or NUL in its text.)
isByteString(s) == \A i \in 1..Len(s) : s[i] # WideChar

ParseFail == [ok |-> FALSE, val |-> JNull, pos |-> 0]
ParseOk(x, p) == [ok |-> TRUE, val |-> x, pos |-> p]

isWhitespace(c) == c \in {" ", "\t", "\n", "\r"}

skipWhitespace(s, i) ==
    IF \E j \in i..Len(s) : ~isWhitespace(s[j])
    THEN CHOOSE j \in i..Len(s) :
             ~isWhitespace(s[j]) /\ \A k \in i..(j - 1) : isWhitespace(s[k])
    ELSE Len(s) + 1

matchAt(s, i, lit) ==
    i + Len(lit) - 1 <= Len(s) /\ SubSeq(s, i, i + Len(lit) - 1) = lit

\* The characters of a string after its opening quote.  Of the escapes,
\* \" \\ and \/ are read; no payload of Tokens uses another one.
RECURSIVE parseChars(_, _, _)
parseChars(s, k, acc) ==
    IF k > Len(s) THEN ParseFail
    ELSE IF s[k] = "\"" THEN ParseOk(JStr(acc), k + 1)
    ELSE IF s[k] = "\\"
    THEN IF k + 1 <= Len(s) /\ s[k + 1] \in {"\"", "\\", "/"}
         THEN parseChars(s, k + 2, Append(acc, s[k + 1]))
         ELSE ParseFail
    ELSE IF s[k] \in {ControlChar, "\t", "\n", "\r"} THEN ParseFail
    ELSE parseChars(s, k + 1, Append(acc, s[k]))

RECURSIVE digitsValue(_)
digitsValue(d) ==
    IF Len(d) = 0 THEN 0
    ELSE 10 * digitsValue(SubSeq(d, 1, Len(d) - 1))
         + (CHOOSE n \in 0..9 : Ascii[17 + n] = d[Len(d)])

\* An integer: -?(0|[1-9][0-9]*).  No payload of Tokens has a fraction or
\* an exponent.
parseNumber(s, i) ==
    LET neg == s[i] = "-"
        d0 == IF neg THEN i + 1 ELSE i
        last == IF d0 <= Len(s) /\ s[d0] = "0" THEN d0
                ELSE CHOOSE e \in (d0 - 1)..Len(s) :
                         /\ \A k \in d0..e : s[k] \in Digits
                         /\ (e = Len(s) \/ s[e + 1] \notin Digits)
    IN  IF last < d0 THEN ParseFail
        ELSE LET n == digitsValue(SubSeq(s, d0, last))
             IN  ParseOk(JNum(IF neg THEN 0 - n ELSE n), last + 1)

\* JSON.parse keeps one member per key: the last value, at the first place.
putMember(members, key, x) ==
    IF \E i \in 1..Len(members) : members[i].k = key
    THEN [i \in 1..Len(members) |->
             IF members[i].k = key THEN [k |-> key, v |-> x] ELSE members[i]]
    ELSE Append(members, [k |-> key, v |-> x])

RECURSIVE parseValue(_, _)
RECURSIVE parseElements(_, _, _)
RECURSIVE parseMembers(_, _, _)

parseValue(s, i) ==
    LET j == skipWhitespace(s, i)
    IN  IF j > Len(s) THEN ParseFail
        ELSE IF s[j] = "{"
        THEN LET k == skipWhitespace(s, j + 1)
             IN  IF k <= Len(s) /\ s[k] = "}"
                 THEN ParseOk(JObj(<<>>), k + 1)
                 ELSE parseMembers(s, k, <<>>)
        ELSE IF s[j] = "["
        THEN LET k == skipWhitespace(s, j + 1)
             IN  IF k <= Len(s) /\ s[k] = "]"
                 THEN ParseOk(EmptyArray, k + 1)
                 ELSE parseElements(s, k, <<>>)
        ELSE IF s[j] = "\"" THEN parseChars(s, j + 1, <<>>)
        ELSE IF matchAt(s, j, <<"t", "r", "u", "e">>) THEN ParseOk(JBool(TRUE), j + 4)
        ELSE IF matchAt(s, j, <<"f", "a", "l", "s", "e">>) THEN ParseOk(JBool(FALSE), j + 5)
        ELSE IF matchAt(s, j, <<"n", "u", "l", "l">>) THEN ParseOk(JNull, j + 4)
        ELSE IF s[j] \in Digits \cup {"-"} THEN parseNumber(s, j)
        ELSE ParseFail

parseElements(s, i, acc) ==
    LET x == parseValue(s, i)
    IN  IF ~x.ok THEN ParseFail
        ELSE LET k == skipWhitespace(s, x.pos)
             IN  IF k > Len(s) THEN ParseFail
                 ELSE IF s[k] = "," THEN parseElements(s, k + 1, Append(acc, x.val))
                 ELSE IF s[k] = "]" THEN ParseOk(JArr(Append(acc, x.val)), k + 1)
                 ELSE ParseFail

parseMembers(s, i, acc) ==
    LET j == skipWhitespace(s, i)
    IN  IF j > Len(s) \/ s[j] # "\"" THEN ParseFail
        ELSE LET key == parseChars(s, j + 1, <<>>)
             IN  IF ~key.ok THEN ParseFail
                 ELSE LET c == skipWhitespace(s, key.pos)
                      IN  IF c > Len(s) \/ s[c] # ":" THEN ParseFail
                          ELSE LET x == parseValue(s, c + 1)
                               IN  IF ~x.ok THEN ParseFail
                                   ELSE LET k == skipWhitespace(s, x.pos)
                                            now == putMember(acc, key.val.v, x.val)
                                        IN  IF k > Len(s) THEN ParseFail
                                            ELSE IF s[k] = "," THEN parseMembers(s, k + 1, now)
                                            ELSE IF s[k] = "}" THEN ParseOk(JObj(now), k + 1)
                                            ELSE ParseFail

\* JSON.parse(s): ok is FALSE where it throws a SyntaxError.
JSONparse(s) ==
    LET x == parseValue(s, 1)
    IN  IF x.ok /\ skipWhitespace(s, x.pos) > Len(s)
        THEN [ok |-> TRUE, val |-> x.val]
        ELSE [ok |-> FALSE, val |-> JNull]

RECURSIVE numberToString(_)
numberToString(n) ==
    IF n < 0 THEN <<"-">> \o numberToString(0 - n)
    ELSE IF n < 10 THEN <<Ascii[17 + n]>>
    ELSE numberToString(n \div 10) \o <<Ascii[17 + (n % 10)]>>

RECURSIVE quote(_)
quote(s) ==
    IF Len(s) = 0 THEN <<>>
    ELSE (IF Head(s) \in {"\"", "\\"} THEN <<"\\", Head(s)>> ELSE <<Head(s)>>)
         \o quote(Tail(s))

\* JSON.stringify(x) for a value JSON.parse returned.
RECURSIVE JSONstringify(_)
JSONstringify(x) ==
    CASE x.t = "null" -> <<"n", "u", "l", "l">>
      [] x.t = "bool" -> IF x.v THEN <<"t", "r", "u", "e">> ELSE <<"f", "a", "l", "s", "e">>
      [] x.t = "num" -> numberToString(x.v)
      [] x.t = "str" -> <<"\"">> \o quote(x.v) \o <<"\"">>
      [] x.t = "arr" ->
           <<"[">> \o join([i \in 1..Len(x.v) |-> JSONstringify(x.v[i])], <<",">>) \o <<"]">>
      [] x.t = "obj" ->
           <<"{">> \o join([i \in 1..Len(x.v) |->
                              <<"\"">> \o quote(x.v[i].k) \o <<"\"", ":">>
                                  \o JSONstringify(x.v[i].v)], <<",">>) \o <<"}">>

----------------------------------------------------------------------------
(* The role extractor.                                                     *)

SESSION_COOKIE == "next-auth.session-token"

\* request.cookies.get(name)?.value, undefined being Null
cookieValue(req, name) ==
    IF name \in DOMAIN req.cookies THEN req.cookies[name] ELSE Null

\* request.headers.get(name)
headersGet(headers, name) ==
    IF name \in DOMAIN headers THEN headers[name] ELSE Null

\* headers.set(name, value)
headersSet(headers, name, value) ==
    [n \in DOMAIN headers \cup {name} |-> IF n = name THEN value ELSE headers[n]]


\* extractUserRolesFromToken returning [] rather than null without a token.
extractUserRolesFromToken_emptyWithoutToken(req) ==
    LET token == cookieValue(req, SESSION_COOKIE)
    IN  IF ~truthy(token) THEN EmptyArray
        ELSE LET parts == split(token, ".")
             IN  IF Len(parts) # 3 THEN JNull
                 ELSE LET payload == JSONparse(bufferToString(bufferFromBase64(parts[2])))
                      IN  IF ~payload.ok THEN JNull
                          ELSE LET roles == getProperty(payload.val, <<"r", "o", "l", "e", "s">>)
                               IN  IF roles.throws THEN JNull
                                   ELSE IF jsTruthy(roles.val) THEN roles.val
                                   ELSE EmptyArray

\* extractUserRolesFromToken testing parts.length < 3.
extractUserRolesFromToken_atLeastThree(req) ==
    LET token == cookieValue(req, SESSION_COOKIE)
    IN  IF ~truthy(token) THEN JNull
        ELSE LET parts == split(token, ".")
             IN  IF Len(parts) < 3 THEN JNull
                 ELSE LET payload == JSONparse(bufferToString(bufferFromBase64(parts[2])))
                      IN  IF ~payload.ok THEN JNull
                          ELSE LET roles == getProperty(payload.val, <<"r", "o", "l", "e", "s">>)
                               IN  IF roles.throws THEN JNull
                                   ELSE IF jsTruthy(roles.val) THEN roles.val
                                   ELSE EmptyArray

\* extractUserRolesFromToken whose catch block returns [].
extractUserRolesFromToken_emptyOnError(req) ==
    LET token == cookieValue(req, SESSION_COOKIE)
    IN  IF ~truthy(token) THEN JNull
        ELSE LET parts == split(token, ".")
             IN  IF Len(parts) # 3 THEN JNull
                 ELSE LET payload == JSONparse(bufferToString(bufferFromBase64(parts[2])))
                      IN  IF ~payload.ok THEN EmptyArray
                          ELSE LET roles == getProperty(payload.val, <<"r", "o", "l", "e", "s">>)
                               IN  IF roles.throws THEN EmptyArray
                                   ELSE IF jsTruthy(roles.val) THEN roles.val
                                   ELSE EmptyArray

\* extractUserRolesFromToken accepting one third segment only.
extractUserRolesFromToken_checksSignature(req) ==
    LET token == cookieValue(req, SESSION_COOKIE)
    IN  IF ~truthy(token) THEN JNull
        ELSE LET parts == split(token, ".")
             IN  IF Len(parts) # 3 \/ parts[3] # <<"s", "i", "g">> THEN JNull
                 ELSE LET payload == JSONparse(bufferToString(bufferFromBase64(parts[2])))
                      IN  IF ~payload.ok THEN JNull
                          ELSE LET roles == getProperty(payload.val, <<"r", "o", "l", "e", "s">>)
                               IN  IF roles.throws THEN JNull
                                   ELSE IF jsTruthy(roles.val) THEN roles.val
                                   ELSE EmptyArray

\* The result is JNull where the code returns null, the catch block included.
extractUserRolesFromToken(req) ==
    LET token == cookieValue(req, SESSION_COOKIE)
    IN  IF ~truthy(token) THEN JNull
        ELSE LET parts == split(token, ".")
             IN  IF Len(parts) # 3 THEN JNull
                 ELSE LET payload == JSONparse(bufferToString(bufferFromBase64(parts[2])))
                      IN  IF ~payload.ok THEN JNull
                          ELSE LET roles == getProperty(payload.val, <<"r", "o", "l", "e", "s">>)
                               IN  IF roles.throws THEN JNull
                                   ELSE IF jsTruthy(roles.val) THEN roles.val
                                   ELSE EmptyArray

----------------------------------------------------------------------------
(* The middleware.                                                         *)

\* PUBLIC_ROUTES without its first entry.
PUBLIC_ROUTES_withoutLogin == <<S_register, S_forgot, S_reset, S_apiauth>>

PUBLIC_ROUTES == <<S_login, S_register, S_forgot, S_reset, S_apiauth>>

PROTECTED_ROUTES(cfg) ==
    <<S_dashboard, S_profile>>
        \o (IF cfg.rbac THEN <<S_admin>> ELSE <<>>)
        \o (IF cfg.multitenant THEN <<S_mp>> ELSE <<>>)


\* isPublicRoute comparing with === rather than startsWith.
isPublicRoute_exact(pathname) ==
    \E i \in 1..Len(PUBLIC_ROUTES) : pathname = PUBLIC_ROUTES[i]

\* String.prototype.toLowerCase on the letters A to Z.
toLowerCase(str) ==
    [i \in 1..Len(str) |->
        IF \E k \in 34..59 : Ascii[k] = str[i]
        THEN Ascii[32 + CHOOSE k \in 34..59 : Ascii[k] = str[i]]
        ELSE str[i]]

\* isPublicRoute comparing without regard to letter case.
isPublicRoute_ignoresCase(pathname) ==
    \E i \in 1..Len(PUBLIC_ROUTES) :
        startsWith(toLowerCase(pathname), toLowerCase(PUBLIC_ROUTES[i]))

isPublicRoute(pathname) ==
    \E i \in 1..Len(PUBLIC_ROUTES) : startsWith(pathname, PUBLIC_ROUTES[i])

\* request.headers.get('host') || ''
extractSubdomainTenant(req) ==
    LET h == headersGet(req.headers, "host")
    IN  extractSubdomain(IF truthy(h) THEN h ELSE <<>>)


\* The rewrite target without the request's pathname.
tenantPath_dropsPath(t, pathname) == S_mpSlash \o t

\* `/mp/${tenant}${pathname}`
tenantPath(t, pathname) == S_mpSlash \o t \o pathname


\* injectUserContext setting the header to String(userRoles), not its JSON.
injectUserContext_unserialised(cfg, req, roles, t) ==
    LET text == IF roles.t = "arr"
                THEN join([i \in 1..Len(roles.v) |->
                              IF roles.v[i].t = "str" THEN roles.v[i].v
                              ELSE JSONstringify(roles.v[i])], <<",">>)
                ELSE JSONstringify(roles)
        withRoles == headersSet(req.headers, "x-user-roles", text)
    IN  IF cfg.multitenant /\ truthy(t)
        THEN headersSet(withRoles, "x-tenant-id", t)
        ELSE withRoles

\* injectUserContext setting x-tenant-id whenever the build is multitenant.
injectUserContext_alwaysTenant(cfg, req, roles, t) ==
    LET withRoles == headersSet(req.headers, "x-user-roles", JSONstringify(roles))
    IN  IF cfg.multitenant
        THEN headersSet(withRoles, "x-tenant-id", IF truthy(t) THEN t ELSE <<>>)
        ELSE withRoles

\* new Headers(request.headers), then the two set calls
injectUserContext(cfg, req, roles, t) ==
    LET withRoles == headersSet(req.headers, "x-user-roles", JSONstringify(roles))
    IN  IF cfg.multitenant /\ truthy(t)
        THEN headersSet(withRoles, "x-tenant-id", t)
        ELSE withRoles

NextResponse_next == [kind |-> "PassThrough"]
NextResponse_rewrite(pathname) == [kind |-> "Rewrite", newPath |-> pathname]
NextResponse_redirect(pathname) == [kind |-> "Redirect", location |-> pathname]
NextResponse_nextWith(headers) == [kind |-> "PassThroughWithHeaders", headers |-> headers]

----------------------------------------------------------------------------
(* Requests.                                                               *)

T_hdr == <<"h", "d", "r">>
T_sig == <<"s", "i", "g">>
T_xyz == <<"x", "y", "z">>
T_other == <<"o", "t", "h", "e", "r">>

\* base64url of {"roles":["admin"]}
B64_rolesAdmin ==
    <<"e", "y", "J", "y", "b", "2", "x", "l", "c", "y", "I", "6", "W", "y", "J", "h",
      "Z", "G", "1", "p", "b", "i", "J", "d", "f", "Q">>
\* base64url of {"roles":["admin","editor"]}
B64_rolesAdminEditor ==
    <<"e", "y", "J", "y", "b", "2", "x", "l", "c", "y", "I", "6", "W", "y", "J", "h",
      "Z", "G", "1", "p", "b", "i", "I", "s", "I", "m", "V", "k", "a", "X", "R", "v",
      "c", "i", "J", "d", "f", "Q">>
\* base64url of {}
B64_emptyObject == <<"e", "3", "0">>
\* base64url of {"roles":[]}
B64_rolesEmpty ==
    <<"e", "y", "J", "y", "b", "2", "x", "l", "c", "y", "I", "6", "W", "1", "1", "9">>
\* base64url of {"roles":"admin"}
B64_rolesString ==
    <<"e", "y", "J", "y", "b", "2", "x", "l", "c", "y", "I", "6", "I", "m", "F", "k",
      "b", "W", "l", "u", "I", "n", "0">>
\* base64url of {"roles":null}
B64_rolesNull ==
    <<"e", "y", "J", "y", "b", "2", "x", "l", "c", "y", "I", "6", "b", "n", "V", "s",
      "b", "H", "0">>
\* base64url of {"roles":[1]}
B64_rolesNumbers ==
    <<"e", "y", "J", "y", "b", "2", "x", "l", "c", "y", "I", "6", "W", "z", "F", "d",
      "f", "Q">>
\* base64url of {"sub":"u1"}
B64_noRoles ==
    <<"e", "y", "J", "z", "d", "W", "I", "i", "O", "i", "J", "1", "M", "S", "J", "9">>
\* base64url of null
B64_null == <<"b", "n", "V", "s", "b", "A">>
\* base64url of 5
B64_number == <<"N", "Q">>
\* base64url of {"roles":["admin"
B64_truncated ==
    <<"e", "y", "J", "y", "b", "2", "x", "l", "c", "y", "I", "6", "W", "y", "J", "h",
      "Z", "G", "1", "p", "b", "i", "I">>
\* no character of the base64 alphabets
B64_undecodable == <<"!", "!", "!", "!">>
\* base64url of {"roles":["\u20ac"]}, the character in UTF-8 (E2 82 AC)
B64_rolesWide ==
    <<"e", "y", "J", "y", "b", "2", "x", "l", "c", "y", "I", "6", "W", "y", "L",
      "i", "g", "q", "w", "i", "X", "X", "0">>
\* base64url of {"roles":["\u00e9"]}, the character in UTF-8 (C3 A9)
B64_rolesLatin1 ==
    <<"e", "y", "J", "y", "b", "2", "x", "l", "c", "y", "I", "6", "W", "y", "L",
      "D", "q", "S", "J", "d", "f", "Q">>

Payloads ==
    {B64_rolesAdmin, B64_rolesAdminEditor, B64_emptyObject, B64_rolesEmpty,
     B64_rolesString, B64_rolesNull, B64_rolesNumbers, B64_noRoles, B64_null,
     B64_number, B64_truncated, B64_undecodable, B64_rolesWide, B64_rolesLatin1}

Token(h, p, s) == h \o <<".">> \o p \o <<".">> \o s

Tokens ==
    {Token(T_hdr, p, T_sig) : p \in Payloads}
        \cup {Token(T_xyz, B64_rolesAdmin, T_other),
              <<>>,
              <<".", ".">>,
              B64_rolesAdmin,
              T_hdr \o <<".">> \o B64_rolesAdmin,
              Token(T_hdr, B64_rolesAdmin, T_sig) \o <<".">> \o T_xyz}

NoCookies == [n \in {} |-> Null]

CookieJars ==
    {NoCookies, [n \in {"theme"} |-> T_other]}
        \cup {[n \in {SESSION_COOKIE} |-> tok] : tok \in Tokens}

P_loginCallback ==
    <<"/", "l", "o", "g", "i", "n", "/", "c", "a", "l", "l", "b", "a", "c", "k">>
P_apiAuthSession ==
    <<"/", "a", "p", "i", "/", "a", "u", "t", "h", "/", "s", "e", "s", "s", "i", "o", "n">>
P_Login == <<"/", "L", "o", "g", "i", "n">>
P_dashboardSettings ==
    <<"/", "d", "a", "s", "h", "b", "o", "a", "r", "d", "/", "s", "e", "t", "t", "i",
      "n", "g", "s">>
P_mpAcmeDashboard ==
    <<"/", "m", "p", "/", "a", "c", "m", "e", "/", "d", "a", "s", "h", "b", "o", "a",
      "r", "d">>
P_root == <<"/">>

Paths ==
    {S_login, P_loginCallback, S_register, S_forgot, S_reset, P_apiAuthSession,
     P_Login, S_dashboard, P_dashboardSettings, S_profile, S_admin,
     P_mpAcmeDashboard, P_root}

H_localhost_3000 == S_localhost \o <<":">> \o P_3000

RequestHosts ==
    {<<>>,
     L_example \o <<".">> \o L_com,
     H_acme_example_com,
     Dot3(S_www, L_example, L_com),
     H_123_example_com,
     Dot3(L_Acme, L_example, L_com),
     H_localhost_3000,
     H_acme_localhost_3000,
     <<":">> \o S_localhost,
     H_acme_localhost_com}

NoHeaders == [n \in {} |-> Null]

HeaderSets == {NoHeaders} \cup {[n \in {"host"} |-> h] : h \in RequestHosts}

Requests ==
    [pathname : Paths, headers : HeaderSets, cookies : CookieJars]

Configs == [rbac : BOOLEAN, multitenant : BOOLEAN]

\* The token with another first and third segment, when it has three.
resign(token) ==
    LET parts == split(token, ".")
    IN  IF Len(parts) = 3 THEN Token(T_xyz, parts[2], T_other) ELSE token

\* The requests sent after a request r whose evaluation is kept in previous:
\* r again, r without its headers, r without its cookies, and r with the
\* first and third segment of its session token replaced.
Variants(r) ==
    {r, [r EXCEPT !.headers = NoHeaders], [r EXCEPT !.cookies = NoCookies]}
        \cup (IF SESSION_COOKIE \in DOMAIN r.cookies
              THEN {[r EXCEPT !.cookies[SESSION_COOKIE] = resign(@)]}
              ELSE {})

NoPrevious == [request |-> NoRequest, decision |-> NoDecision, userRoles |-> JNull]

\* The locals of an evaluation that has not started.
NoEvaluation ==
    [pc |-> "idle", request |-> NoRequest, tenant |-> Null, userRoles |-> JNull,
     decision |-> NoDecision, calls |-> {}]

\* middleware() rejects: the TypeError of Headers.set for a value that is
\* no ByteString.
Throws_TypeError == [kind |-> "TypeError"]

----------------------------------------------------------------------------
(* One evaluation of middleware(request) at a time, statement by statement.*)

\* No handler has been reached.
NoHandler ==
    [reached |-> FALSE, rolesHeader |-> Null, requiredRole |-> <<>>,
     threw |-> FALSE, allowed |-> FALSE]

\* runCLI has not been called.
NotStarted ==
    [pc |-> "idle", step |-> 1, done |-> <<>>, written |-> {}, printed |-> {},
     exitCode |-> -1]

Init ==
    /\ config \in Configs
    /\ request = NoRequest
    /\ pc = "idle"
    /\ tenant = Null
    /\ userRoles = JNull
    /\ decision = NoDecision
    /\ calls = {}
    /\ host = <<>>
    /\ resolved = Unresolved
    /\ previous = NoPrevious
    /\ other = NoEvaluation
    /\ alone = TRUE
    /\ handler = NoHandler
    /\ cli = NotStarted

\* The HTTP layer hands a request to middleware(): any request, or a
\* variant of the one before when that evaluation is kept for comparison.
Receive ==
    /\ pc = "idle"
    /\ request' \in (IF previous = NoPrevious THEN Requests
                     ELSE Variants(previous.request))
    /\ pc' = "public"
    /\ tenant' = Null
    /\ userRoles' = JNull
    /\ decision' = NoDecision
    /\ calls' = {}
    /\ alone' = (other.pc = "idle")
    /\ UNCHANGED <<config, handler, cli, host, resolved, previous, other>>

\* if (isPublicRoute(pathname)) return NextResponse.next();
CheckPublic ==
    /\ pc = "public"
    /\ calls' = calls \cup {"isPublicRoute"}
    /\ IF isPublicRoute(request.pathname)
       THEN decision' = NextResponse_next /\ pc' = "done"
       ELSE decision' = decision /\ pc' = "multitenant"
    /\ UNCHANGED <<config, handler, cli, request, tenant, userRoles, host, resolved, previous, other, alone>>


\* HandleMultitenant without the return after the rewrite.
HandleMultitenant_fallsThrough ==
    /\ pc = "multitenant"
    /\ IF config.multitenant
       THEN LET t == extractSubdomainTenant(request)
            IN  /\ tenant' = t
                /\ calls' = calls \cup {"extractSubdomainTenant"}
                /\ IF truthy(t)
                   THEN decision' = NextResponse_rewrite(tenantPath(t, request.pathname))
                   ELSE decision' = decision
                /\ pc' = "rbac"
       ELSE /\ pc' = "rbac"
            /\ UNCHANGED <<tenant, calls, decision>>
    /\ UNCHANGED <<config, handler, cli, request, userRoles, host, resolved, previous, other, alone>>

\* HandleMultitenant with the block emitted whatever config.multitenant is.
HandleMultitenant_ignoresConfig ==
    /\ pc = "multitenant"
    /\ LET t == extractSubdomainTenant(request)
       IN  /\ tenant' = t
           /\ calls' = calls \cup {"extractSubdomainTenant"}
           /\ IF truthy(t)
              THEN /\ decision' = NextResponse_rewrite(tenantPath(t, request.pathname))
                   /\ pc' = "done"
              ELSE decision' = decision /\ pc' = "rbac"
    /\ UNCHANGED <<config, handler, cli, request, userRoles, host, resolved, previous, other, alone>>

\* The block between lines 76 and 83, present when config.multitenant.
HandleMultitenant ==
    /\ pc = "multitenant"
    /\ IF config.multitenant
       THEN LET t == extractSubdomainTenant(request)
            IN  /\ tenant' = t
                /\ calls' = calls \cup {"extractSubdomainTenant"}
                /\ IF truthy(t)
                   THEN /\ decision' = NextResponse_rewrite(tenantPath(t, request.pathname))
                        /\ pc' = "done"
                   ELSE decision' = decision /\ pc' = "rbac"
       ELSE /\ pc' = "rbac"
            /\ UNCHANGED <<tenant, calls, decision>>
    /\ UNCHANGED <<config, handler, cli, request, userRoles, host, resolved, previous, other, alone>>

\* HandleRbac redirecting for an empty role array as for null.
HandleRbac_redirectsEmpty ==
    /\ pc = "rbac"
    /\ IF config.rbac
       THEN LET roles == extractUserRolesFromToken(request)
            IN  /\ userRoles' = roles
                /\ calls' = calls \cup {"extractUserRolesFromToken"}
                /\ IF ~jsTruthy(roles) \/ (roles.t = "arr" /\ Len(roles.v) = 0)
                   THEN decision' = NextResponse_redirect(S_login)
                   ELSE IF ~isByteString(JSONstringify(roles))
                   THEN decision' = Throws_TypeError
                   ELSE decision' =
                            NextResponse_nextWith(injectUserContext(config, request, roles, tenant))
       ELSE /\ decision' = NextResponse_next
            /\ UNCHANGED <<userRoles, calls>>
    /\ pc' = "done"
    /\ UNCHANGED <<config, handler, cli, request, tenant, host, resolved, previous, other, alone>>

\* HandleRbac whose standard authentication check asks for the session cookie.
HandleRbac_redirectsWithoutSession ==
    /\ pc = "rbac"
    /\ IF config.rbac
       THEN LET roles == extractUserRolesFromToken(request)
            IN  /\ userRoles' = roles
                /\ calls' = calls \cup {"extractUserRolesFromToken"}
                /\ IF ~jsTruthy(roles)
                   THEN decision' = NextResponse_redirect(S_login)
                   ELSE IF ~isByteString(JSONstringify(roles))
                   THEN decision' = Throws_TypeError
                   ELSE decision' =
                            NextResponse_nextWith(injectUserContext(config, request, roles, tenant))
       ELSE /\ decision' = (IF SESSION_COOKIE \in DOMAIN request.cookies
                         THEN NextResponse_next
                         ELSE NextResponse_redirect(S_login))
            /\ UNCHANGED <<userRoles, calls>>
    /\ pc' = "done"
    /\ UNCHANGED <<config, handler, cli, request, tenant, host, resolved, previous, other, alone>>

\* HandleRbac passing a request through without reading its token when the
\* evaluation before it found roles.
HandleRbac_cachesVerdict ==
    /\ pc = "rbac"
    /\ IF config.rbac /\ previous.decision.kind # "PassThroughWithHeaders"
       THEN LET roles == extractUserRolesFromToken(request)
            IN  /\ userRoles' = roles
                /\ calls' = calls \cup {"extractUserRolesFromToken"}
                /\ IF ~jsTruthy(roles)
                   THEN decision' = NextResponse_redirect(S_login)
                   ELSE IF ~isByteString(JSONstringify(roles))
                   THEN decision' = Throws_TypeError
                   ELSE decision' =
                            NextResponse_nextWith(injectUserContext(config, request, roles, tenant))
       ELSE /\ decision' = NextResponse_next
            /\ UNCHANGED <<userRoles, calls>>
    /\ pc' = "done"
    /\ UNCHANGED <<config, handler, cli, request, tenant, host, resolved, previous, other, alone>>

\* HandleRbac with userRoles a variable of the module, which the other
\* evaluation has written.
HandleRbac_sharedRoles ==
    /\ pc = "rbac"
    /\ IF config.rbac
       THEN LET roles == IF other.userRoles # JNull THEN other.userRoles
                         ELSE extractUserRolesFromToken(request)
            IN  /\ userRoles' = roles
                /\ calls' = calls \cup {"extractUserRolesFromToken"}
                /\ IF ~jsTruthy(roles)
                   THEN decision' = NextResponse_redirect(S_login)
                   ELSE IF ~isByteString(JSONstringify(roles))
                   THEN decision' = Throws_TypeError
                   ELSE decision' =
                            NextResponse_nextWith(injectUserContext(config, request, roles, tenant))
       ELSE /\ decision' = NextResponse_next
            /\ UNCHANGED <<userRoles, calls>>
    /\ pc' = "done"
    /\ UNCHANGED <<config, handler, cli, request, tenant, host, resolved, previous, other, alone>>

\* The block between lines 86 and 106: the RBAC text when config.rbac, the
\* "standard authentication check" otherwise.
HandleRbac ==
    /\ pc = "rbac"
    /\ IF config.rbac
       THEN LET roles == extractUserRolesFromToken(request)
            IN  /\ userRoles' = roles
                /\ calls' = calls \cup {"extractUserRolesFromToken"}
                /\ IF ~jsTruthy(roles)
                   THEN decision' = NextResponse_redirect(S_login)
                   ELSE IF ~isByteString(JSONstringify(roles))
                   THEN decision' = Throws_TypeError
                   ELSE decision' =
                            NextResponse_nextWith(injectUserContext(config, request, roles, tenant))
       ELSE /\ decision' = NextResponse_next
            /\ UNCHANGED <<userRoles, calls>>
    /\ pc' = "done"
    /\ UNCHANGED <<config, handler, cli, request, tenant, host, resolved, previous, other, alone>>

\* The HTTP layer applies the decision; the evaluation's locals are gone.
\* An evaluation that ran alone is kept in previous, or not.
Respond ==
    /\ pc = "done"
    /\ pc' = "idle"
    /\ request' = NoRequest
    /\ tenant' = Null
    /\ userRoles' = JNull
    /\ decision' = NoDecision
    /\ calls' = {}
    /\ previous' \in (IF alone
                      THEN {NoPrevious,
                            [request |-> request, decision |-> decision,
                             userRoles |-> userRoles]}
                      ELSE {previous})
    /\ alone' = TRUE
    /\ UNCHANGED <<config, handler, cli, host, resolved, other>>

Next == Receive \/ CheckPublic \/ HandleMultitenant \/ HandleRbac \/ Respond

Spec == Init /\ [][Next]_vars

\* Two evaluations of middleware() at a time.  Each has its own locals; the
\* module's constants are all they share.  Switch suspends the running
\* evaluation and resumes the other one, between any two statements.
Switch ==
    /\ pc # "idle" \/ other.pc # "idle"
    /\ other' = [pc |-> pc, request |-> request, tenant |-> tenant,
                 userRoles |-> userRoles, decision |-> decision, calls |-> calls]
    /\ pc' = other.pc
    /\ request' = other.request
    /\ tenant' = other.tenant
    /\ userRoles' = other.userRoles
    /\ decision' = other.decision
    /\ calls' = other.calls
    /\ alone' = FALSE
    /\ UNCHANGED <<config, handler, cli, host, resolved, previous>>

PI_jars == {NoCookies, [n \in {SESSION_COOKIE} |-> Token(T_hdr, B64_rolesAdmin, T_sig)]}

RequestsInterleaved ==
    [pathname : {S_login, S_dashboard},
     headers : {NoHeaders, [n \in {"host"} |-> H_acme_example_com]},
     cookies : PI_jars]

\* Receive, for the requests of RequestsInterleaved.
ReceiveInterleaved ==
    /\ pc = "idle"
    /\ request' \in RequestsInterleaved
    /\ pc' = "public"
    /\ tenant' = Null
    /\ userRoles' = JNull
    /\ decision' = NoDecision
    /\ calls' = {}
    /\ alone' = (other.pc = "idle")
    /\ UNCHANGED <<config, handler, cli, host, resolved, previous, other>>

NextInterleaved ==
    \/ ReceiveInterleaved
    \/ CheckPublic
    \/ HandleMultitenant
    \/ HandleRbac
    \/ Respond
    \/ Switch

SpecInterleaved == Init /\ [][NextInterleaved]_vars

\* A direct call extractSubdomain(host), the middleware being idle.
InitTenant ==
    /\ host \in Hosts
    /\ resolved = Unresolved
    /\ config = [rbac |-> FALSE, multitenant |-> TRUE]
    /\ request = NoRequest
    /\ pc = "idle"
    /\ tenant = Null
    /\ userRoles = JNull
    /\ decision = NoDecision
    /\ calls = {}
    /\ previous = NoPrevious
    /\ other = NoEvaluation
    /\ alone = TRUE
    /\ handler = NoHandler
    /\ cli = NotStarted

ResolveHost ==
    /\ ~resolved.done
    /\ resolved' = [done |-> TRUE, value |-> extractSubdomain(host)]
    /\ UNCHANGED <<config, handler, cli, request, pc, tenant, userRoles, decision,
                   calls, host, previous, other, alone>>

NextTenant == ResolveHost

SpecTenant == InitTenant /\ [][NextTenant]_vars

----------------------------------------------------------------------------
(* Claims about the subdomain resolver, checked under SpecTenant.          *)

\* C7: whatever the host header, resolveTenant returns absent or a string
\* matching [a-z0-9-]+, the localhost branch included.
C7_TenantAlwaysValidated ==
    resolved.done => (resolved.value = Null \/ IsSlug(resolved.value))

\* C8: resolveTenant(L.localhost:port) is L for every label L matching
\* [a-z0-9-]+ and every port, and resolveTenant(localhost:port) is absent.
C8_LocalhostTenant ==
    resolved.done =>
        /\ \A l \in Labels, p \in Ports :
               (IsSlug(l) /\ host = l \o <<".">> \o S_localhost \o <<":">> \o p)
                   => resolved.value = l
        /\ \A p \in Ports :
               host = S_localhost \o <<":">> \o p => resolved.value = Null

\* C9: resolveTenant(label.domain.tld) is label whenever label matches
\* [a-z0-9-]+, is not "www" and is not all digits, for every domain and tld,
\* those containing the text "localhost" included.
C9_SubdomainOfAnyDomain ==
    (/\ resolved.done
     /\ IsDot3(host)
     /\ IsSlug(FirstLabel(host))
     /\ FirstLabel(host) # S_www
     /\ ~IsNumeric(FirstLabel(host)))
        => resolved.value = FirstLabel(host)

\* The part of C9 the code satisfies: the same, for the hosts in which the
\* text "localhost" does not occur.
SubdomainOfPlainDomain ==
    (/\ resolved.done
     /\ IsDot3(host)
     /\ IsSlug(FirstLabel(host))
     /\ FirstLabel(host) # S_www
     /\ ~IsNumeric(FirstLabel(host))
     /\ ~includes(host, S_localhost))
        => resolved.value = FirstLabel(host)

\* C10: for a host header without the text "localhost", resolveTenant is
\* absent when the host has fewer than 3 dot-separated labels, when its first
\* label is "www", or when its first label is all digits.
C10_NoTenantForBareWwwNumeric ==
    (resolved.done /\ ~includes(host, S_localhost)) =>
        ((\/ CountChar(host, ".") + 1 < 3
          \/ FirstLabel(host) = S_www
          \/ IsNumeric(FirstLabel(host)))
            => resolved.value = Null)

C10_Witness ==
    resolved.done /\ host = H_123_example_com /\ resolved.value = Null

----------------------------------------------------------------------------
(* Claims about the decision, checked under Spec.                          *)

\* p is a prefix of s, character by character.
HasPrefix(s, p) ==
    Len(p) <= Len(s) /\ \A i \in 1..Len(p) : s[i] = p[i]

PublicPrefixes == {S_login, S_register, S_forgot, S_reset, S_apiauth}

OnPublicPath == \E p \in PublicPrefixes : HasPrefix(request.pathname, p)

OnProtectedPath ==
    \E i \in 1..Len(PROTECTED_ROUTES(config)) :
        HasPrefix(request.pathname, PROTECTED_ROUTES(config)[i])

HasSessionCookie == SESSION_COOKIE \in DOMAIN request.cookies

HostIs(h) == "host" \in DOMAIN request.headers /\ request.headers["host"] = h

RedirectToLogin == [kind |-> "Redirect", location |-> S_login]

T_admin == Token(T_hdr, B64_rolesAdmin, T_sig)

J_adminArray == <<"[", "\"", "a", "d", "m", "i", "n", "\"", "]">>

\* C1: a request on a path that starts with a public prefix gets PassThrough
\* under every configuration, host header and cookie set, and neither the
\* tenant resolver nor the role extractor is called for it.
C1_PublicPassesThrough ==
    (pc = "done" /\ OnPublicPath) =>
        /\ decision = [kind |-> "PassThrough"]
        /\ calls = {"isPublicRoute"}
        /\ tenant = Null
        /\ userRoles = JNull

C1_Witness ==
    /\ pc = "done"
    /\ request.pathname = P_loginCallback
    /\ config.rbac /\ config.multitenant
    /\ HostIs(H_acme_example_com)
    /\ ~HasSessionCookie
    /\ decision = [kind |-> "PassThrough"]

\* C2: with rbac, a non-public request that is not rewritten and whose roles
\* are absent is redirected to /login; a request without the session cookie
\* is such a request.
C2_AbsentRolesRedirect ==
    (pc = "done" /\ config.rbac /\ ~OnPublicPath /\ decision.kind # "Rewrite") =>
        /\ "extractUserRolesFromToken" \in calls
        /\ userRoles = JNull => decision = RedirectToLogin
        /\ ~HasSessionCookie => (userRoles = JNull /\ decision = RedirectToLogin)

C2_Witness ==
    /\ pc = "done"
    /\ config.rbac /\ ~config.multitenant
    /\ request.pathname = S_dashboard
    /\ ~HasSessionCookie
    /\ decision = RedirectToLogin

\* C3: under every configuration, a request on a path that starts with a
\* protected prefix and that carries no session cookie is redirected to
\* /login.
C3_ProtectedNeedsSession ==
    (pc = "done" /\ OnProtectedPath /\ ~HasSessionCookie) =>
        decision = RedirectToLogin

C6_RolesHeader ==
    (/\ pc = "done" /\ config.rbac /\ ~OnPublicPath
     /\ decision.kind # "Rewrite" /\ userRoles # JNull) =>
        /\ decision.kind = "PassThroughWithHeaders"
        /\ "x-user-roles" \in DOMAIN decision.headers
        /\ LET back == JSONparse(decision.headers["x-user-roles"])
           IN  back.ok /\ back.val = userRoles
        /\ (HasSessionCookie /\ request.cookies[SESSION_COOKIE] = T_admin) =>
               /\ userRoles = JArr(<<JStr(<<"a", "d", "m", "i", "n">>)>>)
               /\ decision.headers["x-user-roles"] = J_adminArray

C6_Witness ==
    /\ pc = "done"
    /\ config.rbac /\ ~config.multitenant
    /\ request.pathname = S_admin
    /\ HasSessionCookie /\ request.cookies[SESSION_COOKIE] = T_admin
    /\ decision.kind = "PassThroughWithHeaders"
    /\ decision.headers["x-user-roles"] = J_adminArray

----------------------------------------------------------------------------
(* Claims about the role extractor, checked under Spec.                    *)

\* The evaluation has returned, and it has called the role extractor.
ExtractorCalled == pc = "done" /\ "extractUserRolesFromToken" \in calls

SessionToken == request.cookies[SESSION_COOKIE]

Segments == split(SessionToken, ".")

HasThreeSegments == HasSessionCookie /\ Len(Segments) = 3

\* JSON.parse of the decoded middle segment of a token of three segments.
Parsed == JSONparse(bufferToString(bufferFromBase64(Segments[2])))

MiddleParses == HasThreeSegments /\ Parsed.ok

HasRolesField ==
    Parsed.val.t = "obj" /\ \E i \in 1..Len(Parsed.val.v) : Parsed.val.v[i].k = <<"r", "o", "l", "e", "s">>

RolesField ==
    Parsed.val.v[CHOOSE i \in 1..Len(Parsed.val.v) :
                     Parsed.val.v[i].k = <<"r", "o", "l", "e", "s">>].v

IsStringArray(x) == x.t = "arr" /\ \A i \in 1..Len(x.v) : x.v[i].t = "str"

TokenIs(p) == HasSessionCookie /\ SessionToken = Token(T_hdr, p, T_sig)

\* C11: for a token whose middle segment parses, the extractor returns the
\* roles field when it is there and is an array of strings, and the empty
\* array in every other case; what it returns is always an array.
C11_RolesFieldRead ==
    (ExtractorCalled /\ MiddleParses) =>
        /\ userRoles.t = "arr"
        /\ userRoles = IF HasRolesField /\ IsStringArray(RolesField)
                       THEN RolesField
                       ELSE EmptyArray

\* C12: the extractor returns null when the request has no session cookie,
\* and for every token that split on "." has another number of segments
\* than three, the empty token included.
C12_MalformedTokenAbsent ==
    (ExtractorCalled /\ ~HasThreeSegments) => userRoles = JNull

C12_Witness ==
    /\ ExtractorCalled
    /\ HasSessionCookie
    /\ Len(Segments) = 4
    /\ Segments[2] = B64_rolesAdmin
    /\ userRoles = JNull

\* C13: for a token of three segments whose middle segment does not decode
\* to a text JSON.parse accepts, the extractor returns null, nothing is
\* thrown out of the middleware, and the request is answered (with the
\* redirect to /login).
C13_UnparsableAbsent ==
    (ExtractorCalled /\ HasThreeSegments /\ ~Parsed.ok) =>
        /\ userRoles = JNull
        /\ decision = RedirectToLogin

C13_Witness ==
    /\ ExtractorCalled
    /\ TokenIs(B64_truncated)
    /\ userRoles = JNull
    /\ decision = RedirectToLogin

\* The roles of the request could not be determined, as C14 lists the cases:
\* no session cookie, a token of another number of segments than three, or
\* a middle segment that does not decode to a text JSON.parse accepts.
Undetermined == ~HasThreeSegments \/ ~Parsed.ok

\* The parsed payload names no role: it has no roles field, or a roles field
\* that is null, false, 0, "" or [].
ClaimsNoRoles ==
    \/ ~HasRolesField
    \/ ~jsTruthy(RolesField)
    \/ (RolesField.t = "arr" /\ Len(RolesField.v) = 0)

RbacDecides == pc = "done" /\ config.rbac /\ ~OnPublicPath /\ decision.kind # "Rewrite"

PassesWithEmptyRoles ==
    /\ decision.kind = "PassThroughWithHeaders"
    /\ userRoles = EmptyArray
    /\ decision.headers["x-user-roles"] = <<"[", "]">>

\* C14 as stated: with rbac, the redirect to /login is given only when the
\* roles are undetermined (no cookie, not three segments, or a middle
\* segment that does not decode or parse), and every token whose middle
\* segment parses and names no role passes with the header [].
C14_AbsentIsNotEmpty ==
    RbacDecides =>
        /\ decision = RedirectToLogin => Undetermined
        /\ (~Undetermined /\ ClaimsNoRoles) => PassesWithEmptyRoles

\* C14 as amended: the same, a middle segment that parses to the JSON value
\* null counted with the undetermined cases.
C14_AbsentIsNotEmptyButNull ==
    RbacDecides =>
        /\ decision = RedirectToLogin => (Undetermined \/ Parsed.val.t = "null")
        /\ (~Undetermined /\ Parsed.val.t # "null" /\ ClaimsNoRoles) => PassesWithEmptyRoles

C14_Witness ==
    /\ RbacDecides
    /\ TokenIs(B64_emptyObject)
    /\ PassesWithEmptyRoles

\* C15: every evaluation ends with one of the decisions PassThrough,
\* Rewrite, Redirect and PassThroughWithHeaders, and throws nothing.
C15_AlwaysADecision ==
    pc = "done" =>
        decision.kind \in {"PassThrough", "Rewrite", "Redirect", "PassThroughWithHeaders"}

----------------------------------------------------------------------------
(* Claims about the classifier and about pairs of evaluations, checked     *)
(* under Spec.                                                             *)

\* C16: the classifier answers public exactly for the paths that start,
\* character for character, with one of the public prefixes;
\* /dashboard/settings and /Login are not public.
C16_PublicIffPrefix ==
    [][pc = "public" =>
          /\ pc' = "done" <=> OnPublicPath
          /\ pc' = "multitenant" <=> ~OnPublicPath
          /\ request.pathname \in {P_dashboardSettings, P_Login} => pc' = "multitenant"]_vars

C16_Witness ==
    /\ pc = "multitenant"
    /\ request.pathname = P_Login
    /\ decision = NoDecision

\* The evaluation has returned and the one before it is kept.
PairDone == pc = "done" /\ previous # NoPrevious

\* What the decision does to the request: its kind, the rewritten path, the
\* location, and the headers the middleware sets.
Outcome(d) ==
    IF d.kind = "PassThroughWithHeaders"
    THEN [kind |-> d.kind,
          set |-> [n \in DOMAIN d.headers \cap {"x-user-roles", "x-tenant-id"} |->
                      d.headers[n]]]
    ELSE d

\* Both requests carry a token of three segments, with the same middle one.
SameMiddleSegment(r1, r2) ==
    /\ SESSION_COOKIE \in DOMAIN r1.cookies
    /\ SESSION_COOKIE \in DOMAIN r2.cookies
    /\ DOMAIN r1.cookies = DOMAIN r2.cookies
    /\ LET p1 == split(r1.cookies[SESSION_COOKIE], ".")
           p2 == split(r2.cookies[SESSION_COOKIE], ".")
       IN  Len(p1) = 3 /\ Len(p2) = 3 /\ p1[2] = p2[2]

\* C17: two requests that differ at most in the first and third segment of
\* their tokens of three segments get the same roles and the same decision.
C17_SignatureIgnored ==
    (/\ PairDone
     /\ previous.request.pathname = request.pathname
     /\ previous.request.headers = request.headers
     /\ SameMiddleSegment(previous.request, request)) =>
        /\ userRoles = previous.userRoles
        /\ decision = previous.decision

C17_Witness ==
    /\ PairDone
    /\ previous.request.cookies = [n \in {SESSION_COOKIE} |-> T_admin]
    /\ request.cookies = [n \in {SESSION_COOKIE} |-> Token(T_xyz, B64_rolesAdmin, T_other)]
    /\ previous.request.pathname = request.pathname
    /\ previous.request.headers = request.headers
    /\ decision.kind = "PassThroughWithHeaders"
    /\ decision = previous.decision

----------------------------------------------------------------------------
(* Claims about two evaluations at a time, checked under SpecInterleaved.  *)

\* C21: an evaluation interleaved with the evaluation of another request
\* ends with the decision, and the roles, the same request got when it was
\* evaluated alone.
C21_InterleavedAsAlone ==
    (/\ pc = "done" /\ ~alone
     /\ previous # NoPrevious /\ previous.request = request) =>
        /\ decision = previous.decision
        /\ userRoles = previous.userRoles

C21_Witness ==
    /\ pc = "done" /\ ~alone
    /\ previous.request = request
    /\ config.rbac /\ ~config.multitenant
    /\ request.pathname = S_dashboard
    /\ ~HasSessionCookie
    /\ other.pc = "done"
    /\ other.request # request
    /\ other.decision.kind = "PassThroughWithHeaders"
    /\ decision = RedirectToLogin

----------------------------------------------------------------------------
(* The middleware.ts that generateMiddleware writes: the text built by     *)
(* generateMiddlewareContent (src/src/generators/generator-orchestrator.ts, *)
(* lines 205 to 328).  Its evaluation uses the variables of the evaluation  *)
(* above: tenant holds const subdomain (line 226).                          *)

Orch_publicRoutes == <<S_login, S_register, S_forgot>>

Orch_extractSubdomain(h) ==
    LET parts == split(h, ".")
    IN  IF includes(parts[1], <<":">>)
        THEN LET hostname == split(parts[1], ":")[1]
             IN  IF hostname # S_localhost /\ hostname # S_www THEN hostname ELSE Null
        ELSE IF Len(parts) > 2
        THEN IF parts[1] # S_www THEN parts[1] ELSE Null
        ELSE Null

\* The payload of the token, or JNull where the code returns null.
Orch_getSessionFromToken(req) ==
    LET token == cookieValue(req, SESSION_COOKIE)
    IN  IF ~truthy(token) THEN JNull
        ELSE LET parts == split(token, ".")
             IN  IF Len(parts) # 3 THEN JNull
                 ELSE LET payload == JSONparse(bufferToString(bufferFromBase64(parts[2])))
                      IN  IF ~payload.ok THEN JNull ELSE payload.val

\* String(x), as Headers.set converts its value.
RECURSIVE jsToString(_)
jsToString(x) ==
    CASE x.t = "undefined" -> <<"u", "n", "d", "e", "f", "i", "n", "e", "d">>
      [] x.t = "null" -> <<"n", "u", "l", "l">>
      [] x.t = "bool" -> IF x.v THEN <<"t", "r", "u", "e">> ELSE <<"f", "a", "l", "s", "e">>
      [] x.t = "num" -> numberToString(x.v)
      [] x.t = "str" -> x.v
      [] x.t = "arr" ->
           join([i \in 1..Len(x.v) |->
                    IF x.v[i].t \in {"null", "undefined"} THEN <<>>
                    ELSE jsToString(x.v[i])], <<",">>)
      [] x.t = "obj" ->
           <<"[", "o", "b", "j", "e", "c", "t", " ", "O", "b", "j", "e", "c", "t", "]">>

\* Headers.set strips the white space around a value.
RECURSIVE trimHeaderValue(_)
trimHeaderValue(str) ==
    IF Len(str) = 0 THEN str
    ELSE IF isWhitespace(str[1]) THEN trimHeaderValue(Tail(str))
    ELSE IF isWhitespace(str[Len(str)]) THEN trimHeaderValue(SubSeq(str, 1, Len(str) - 1))
    ELSE str

\* base64url of {"user":{"id":"u1","roles":["admin"],"tenantId":"acme"}}
B64_user ==
    <<"e", "y", "J", "1", "c", "2", "V", "y", "I", "j", "p", "7", "I", "m", "l",
      "k", "I", "j", "o", "i", "d", "T", "E", "i", "L", "C", "J", "y", "b", "2",
      "x", "l", "c", "y", "I", "6", "W", "y", "J", "h", "Z", "G", "1", "p", "b",
      "i", "J", "d", "L", "C", "J", "0", "Z", "W", "5", "h", "b", "n", "R", "J",
      "Z", "C", "I", "6", "I", "m", "F", "j", "b", "W", "U", "i", "f", "X", "0">>
\* base64url of {"user":{"roles":["admin"]}}
B64_userNoId ==
    <<"e", "y", "J", "1", "c", "2", "V", "y", "I", "j", "p", "7", "I", "n", "J",
      "v", "b", "G", "V", "z", "I", "j", "p", "b", "I", "m", "F", "k", "b", "W",
      "l", "u", "I", "l", "1", "9", "f", "Q">>
\* base64url of {"user":{"id":"€"}}
B64_userWide ==
    <<"e", "y", "J", "1", "c", "2", "V", "y", "I", "j", "p", "7", "I", "m", "l",
      "k", "I", "j", "o", "i", "4", "o", "K", "s", "I", "n", "1", "9">>

L_a_b == <<"a", "_", "b">>

Orch_Labels == {L_acme, L_a1, L_123, L_Acme, L_a_b}

Orch_Hosts ==
    {l \o <<".">> \o H_localhost_3000 : l \in Orch_Labels}
        \cup {Dot3(l, L_example, L_com) : l \in Orch_Labels}
        \cup {<<>>,
              L_example \o <<".">> \o L_com,
              Dot3(S_www, L_example, L_com),
              H_localhost_3000,
              L_acme \o <<":">> \o P_3000,
              <<".">> \o L_example \o <<".">> \o L_com}

Orch_Requests ==
    [pathname : {S_login, S_reset, S_dashboard},
     headers : {NoHeaders} \cup {[n \in {"host"} |-> h] : h \in Orch_Hosts},
     cookies : {NoCookies}
                  \cup {[n \in {SESSION_COOKIE} |-> Token(T_hdr, p, T_sig)] :
                           p \in {B64_rolesAdmin, B64_user, B64_userNoId, B64_userWide,
                                  B64_null, B64_truncated}}]

Orch_Receive ==
    /\ pc = "idle"
    /\ request' \in Orch_Requests
    /\ pc' = "public"
    /\ tenant' = Null
    /\ userRoles' = JNull
    /\ decision' = NoDecision
    /\ calls' = {}
    /\ UNCHANGED <<config, handler, cli, host, resolved, previous, other, alone>>

\* if (publicRoutes.some(route => pathname.startsWith(route)))
Orch_CheckPublic ==
    /\ pc = "public"
    /\ IF \E i \in 1..Len(Orch_publicRoutes) :
              startsWith(request.pathname, Orch_publicRoutes[i])
       THEN decision' = NextResponse_next /\ pc' = "done"
       ELSE decision' = decision /\ pc' = "multitenant"
    /\ UNCHANGED <<config, handler, cli, request, tenant, userRoles, calls, host, resolved,
                   previous, other, alone>>

\* The text of lines 224 to 233, added when config.multitenant.
Orch_HandleMultitenant ==
    /\ pc = "multitenant"
    /\ IF config.multitenant
       THEN LET h == headersGet(request.headers, "host")
                subdomain == Orch_extractSubdomain(IF truthy(h) THEN h ELSE <<>>)
            IN  /\ tenant' = subdomain
                /\ calls' = calls \cup {"extractSubdomain"}
                /\ IF truthy(subdomain) /\ subdomain # S_www
                   THEN /\ decision' =
                               NextResponse_rewrite(S_mpSlash \o subdomain \o request.pathname)
                        /\ pc' = "done"
                   ELSE decision' = decision /\ pc' = "rbac"
       ELSE /\ pc' = "rbac"
            /\ UNCHANGED <<tenant, calls, decision>>
    /\ UNCHANGED <<config, handler, cli, request, userRoles, host, resolved, previous, other, alone>>

\* session?.user
Orch_sessionUser(session) ==
    IF session.t \in {"null", "undefined"} THEN JUndefined
    ELSE getProperty(session, <<"u", "s", "e", "r">>).val

\* session.user.roles || []
Orch_userRoles(user) ==
    IF jsTruthy(getProperty(user, <<"r", "o", "l", "e", "s">>).val)
    THEN getProperty(user, <<"r", "o", "l", "e", "s">>).val
    ELSE EmptyArray

\* session.user.tenantId || ''
Orch_userTenant(user) ==
    IF jsTruthy(getProperty(user, <<"t", "e", "n", "a", "n", "t", "I", "d">>).val)
    THEN jsToString(getProperty(user, <<"t", "e", "n", "a", "n", "t", "I", "d">>).val)
    ELSE <<>>

\* The values of the set calls of lines 248 to 250, in their order.
Orch_headerValues(cfg, user) ==
    <<jsToString(getProperty(user, <<"i", "d">>).val),
      JSONstringify(Orch_userRoles(user))>>
        \o (IF cfg.multitenant THEN <<Orch_userTenant(user)>> ELSE <<>>)

\* new Headers(request.headers) after the set calls.
Orch_requestHeaders(cfg, req, values) ==
    [n \in DOMAIN req.headers \cup {"x-user-id", "x-user-roles"}
               \cup (IF cfg.multitenant THEN {"x-tenant-id"} ELSE {}) |->
        IF n = "x-user-id" THEN trimHeaderValue(values[1])
        ELSE IF n = "x-user-roles" THEN trimHeaderValue(values[2])
        ELSE IF n = "x-tenant-id" /\ cfg.multitenant THEN trimHeaderValue(values[3])
        ELSE req.headers[n]]

\* The text of lines 239 to 256 when config.rbac, of lines 260 and 261
\* otherwise.  userRoles holds session.user.roles || [].
Orch_HandleRbac ==
    /\ pc = "rbac"
    /\ IF config.rbac
       THEN LET user == Orch_sessionUser(Orch_getSessionFromToken(request))
            IN  /\ calls' = calls \cup {"getSessionFromToken"}
                /\ IF ~jsTruthy(user)
                   THEN decision' = NextResponse_redirect(S_login) /\ userRoles' = userRoles
                   ELSE /\ userRoles' = Orch_userRoles(user)
                        /\ LET values == Orch_headerValues(config, user)
                           IN  IF \A i \in 1..Len(values) : isByteString(values[i])
                               THEN decision' =
                                        NextResponse_nextWith(
                                            Orch_requestHeaders(config, request, values))
                               ELSE decision' = Throws_TypeError
       ELSE /\ decision' = NextResponse_next
            /\ UNCHANGED <<userRoles, calls>>
    /\ pc' = "done"
    /\ UNCHANGED <<config, handler, cli, request, tenant, host, resolved, previous, other, alone>>

Orch_Respond ==
    /\ pc = "done"
    /\ pc' = "idle"
    /\ request' = NoRequest
    /\ tenant' = Null
    /\ userRoles' = JNull
    /\ decision' = NoDecision
    /\ calls' = {}
    /\ UNCHANGED <<config, handler, cli, host, resolved, previous, other, alone>>

NextOrchestrator ==
    \/ Orch_Receive
    \/ Orch_CheckPublic
    \/ Orch_HandleMultitenant
    \/ Orch_HandleRbac
    \/ Orch_Respond

SpecOrchestrator == Init /\ [][NextOrchestrator]_vars

----------------------------------------------------------------------------
(* Claims about the middleware of generateMiddlewareContent, checked under *)
(* SpecOrchestrator.                                                       *)

IsAlnumOrHyphen(c) ==
    c \in Digits \cup LowerLetters \cup {"-"} \/ \E k \in 34..59 : Ascii[k] = c

\* C22: the middleware that generateMiddleware writes rewrites a request to
\* /mp/<tenant><path> only when the subdomain taken from the host header
\* is made of letters, digits and hyphens.
C22_RewriteOnlyValidSlug ==
    (pc = "done" /\ decision.kind = "Rewrite") =>
        /\ Len(tenant) > 0
        /\ \A i \in 1..Len(tenant) : IsAlnumOrHyphen(tenant[i])

SubdomainResolved == pc \in {"rbac", "done"} /\ "extractSubdomain" \in calls

\* C23: in that middleware extractSubdomain gives, for every label L other
\* than www and localhost, L for the host L.localhost:<port>, L for the
\* host L.<domain>.<tld>, and null for the host <domain>.<tld>.
C23_SubdomainAsDocumented ==
    SubdomainResolved =>
        /\ \A l \in Orch_Labels :
               /\ HostIs(l \o <<".">> \o H_localhost_3000) => tenant = l
               /\ HostIs(Dot3(l, L_example, L_com)) => tenant = l
        /\ HostIs(L_example \o <<".">> \o L_com) => tenant = Null

----------------------------------------------------------------------------
(* From the HTTP layer to the route handler: the matcher decides whether   *)
(* middleware() runs (lines 233 to 237), the request headers of the        *)
(* decision are the ones the handler reads, and the handler calls hasRole  *)
(* as the comment of lines 206 to 212 shows.                               *)

M_api == <<"a", "p", "i">>
M_nextStatic == <<"_", "n", "e", "x", "t", "/", "s", "t", "a", "t", "i", "c">>
M_nextImage == <<"_", "n", "e", "x", "t", "/", "i", "m", "a", "g", "e">>
M_favicon == <<"f", "a", "v", "i", "c", "o", "n">>
M_ico == <<"i", "c", "o">>

\* (?!api|_next/static|_next/image|favicon.ico) at the start of rest; the
\* dot of the pattern is any character but a line break.
matcherLookahead(rest) ==
    \/ startsWith(rest, M_api)
    \/ startsWith(rest, M_nextStatic)
    \/ startsWith(rest, M_nextImage)
    \/ /\ Len(rest) >= Len(M_favicon) + 1 + Len(M_ico)
       /\ startsWith(rest, M_favicon)
       /\ rest[Len(M_favicon) + 1] \notin {"\n", "\r"}
       /\ SubSeq(rest, Len(M_favicon) + 2, Len(M_favicon) + 1 + Len(M_ico)) = M_ico

\* The pattern '/((?!api|_next/static|_next/image|favicon.ico).*)' against
\* the whole pathname.
matcherMatches(pathname) ==
    /\ Len(pathname) >= 1
    /\ pathname[1] = "/"
    /\ ~matcherLookahead(Tail(pathname))

Returns(b) == [threw |-> FALSE, value |-> b]
ThrowsError == [threw |-> TRUE, value |-> FALSE]

\* roles.includes(requiredRole): the same value, of the same type.
arrayIncludes(roles, str) ==
    \E i \in 1..Len(roles) : roles[i].t = "str" /\ roles[i].v = str

\* hasRole answering by the text of the header, not by its elements.
hasRole_substring(rolesHeader, requiredRole) ==
    IF ~truthy(rolesHeader) THEN Returns(FALSE)
    ELSE Returns(includes(rolesHeader, requiredRole))

\* The try block of hasRole (lines 217 and 218): JSON.parse may throw.
hasRole_try(rolesHeader, requiredRole) ==
    LET roles == JSONparse(rolesHeader)
    IN  IF ~roles.ok THEN ThrowsError
        ELSE Returns(roles.val.t = "arr" /\ arrayIncludes(roles.val.v, requiredRole))

hasRole(rolesHeader, requiredRole) ==
    IF ~truthy(rolesHeader) THEN Returns(FALSE)
    ELSE IF hasRole_try(rolesHeader, requiredRole).threw THEN Returns(FALSE)
    ELSE hasRole_try(rolesHeader, requiredRole)

\* base64url of {"roles":["a\"b"]}
B64_rolesQuote ==
    <<"e", "y", "J", "y", "b", "2", "x", "l", "c", "y", "I", "6", "W", "y", "J", "h", "X", "C", "J", "i", "I", "l", "1", "9">>

R_admin == <<"a", "d", "m", "i", "n">>
R_editor == <<"e", "d", "i", "t", "o", "r">>
R_adm == <<"a", "d", "m">>
R_quote == <<"a", "\"", "b">>
R_one == <<"1">>

RoleQueries == {R_admin, R_editor, R_adm, R_quote, R_one, <<>>}

\* Values of x-user-roles a client sends.
V_adminArray == <<"[", "\"", "a", "d", "m", "i", "n", "\"", "]">>
V_adminString == <<"\"", "a", "d", "m", "i", "n", "\"">>
V_adminObject == <<"{", "\"", "a", "d", "m", "i", "n", "\"", ":", "t", "r", "u", "e", "}">>

ClientRoles == {<<>>, R_admin, V_adminArray, V_adminString, V_adminObject}

P_apiUsers == <<"/", "a", "p", "i", "/", "u", "s", "e", "r", "s">>
P_apiary == <<"/", "a", "p", "i", "a", "r", "y">>
P_nextStaticApp == <<"/", "_", "n", "e", "x", "t", "/", "s", "t", "a", "t", "i", "c", "/", "a", "p", "p", ".", "j", "s">>
P_nextImage == <<"/", "_", "n", "e", "x", "t", "/", "i", "m", "a", "g", "e">>
P_nextData == <<"/", "_", "n", "e", "x", "t", "/", "d", "a", "t", "a", "/", "b", ".", "j", "s", "o", "n">>
P_favicon == <<"/", "f", "a", "v", "i", "c", "o", "n", ".", "i", "c", "o">>
P_faviconDash == <<"/", "f", "a", "v", "i", "c", "o", "n", "-", "i", "c", "o">>

RoutedPaths ==
    {S_login, S_dashboard, P_apiUsers, P_apiary, P_nextStaticApp, P_nextImage,
     P_nextData, P_favicon, P_faviconDash}

RoutedHeaders ==
    {NoHeaders, [n \in {"host"} |-> H_acme_example_com]}
        \cup {[n \in {"x-user-roles"} |-> v] : v \in ClientRoles}
        \cup {[n \in {"host", "x-user-roles"} |->
                  IF n = "host" THEN H_acme_example_com ELSE V_adminArray]}

RoutedRequests ==
    [pathname : RoutedPaths,
     headers : RoutedHeaders,
     cookies : {NoCookies}
                  \cup {[n \in {SESSION_COOKIE} |-> Token(T_hdr, p, T_sig)] :
                           p \in {B64_rolesAdmin, B64_rolesAdminEditor, B64_rolesNumbers,
                                  B64_rolesString, B64_rolesQuote, B64_rolesWide}}]

Route_Receive ==
    /\ pc = "idle"
    /\ request' \in RoutedRequests
    /\ pc' = "matcher"
    /\ tenant' = Null
    /\ userRoles' = JNull
    /\ decision' = NoDecision
    /\ calls' = {}
    /\ handler' = NoHandler
    /\ UNCHANGED <<config, cli, host, resolved, previous, other, alone>>

\* middleware() is called for the paths config.matcher matches only.
Route_Match ==
    /\ pc = "matcher"
    /\ IF matcherMatches(request.pathname)
       THEN pc' = "public" /\ calls' = calls \cup {"middleware"}
       ELSE pc' = "handler" /\ calls' = calls
    /\ UNCHANGED <<config, handler, cli, request, tenant, userRoles, decision, host,
                   resolved, previous, other, alone>>

\* A redirect and an error answer the client; every other decision goes
\* on to a route handler.
Route_Forward ==
    /\ pc = "done"
    /\ pc' = IF decision.kind \in {"Redirect", "TypeError"} THEN "idle" ELSE "handler"
    /\ UNCHANGED <<config, handler, cli, request, tenant, userRoles, decision, calls,
                   host, resolved, previous, other, alone>>

\* request.headers of the handler: the headers of NextResponse.next({
\* request: { headers } }) when the decision has some, the ones the client
\* sent otherwise.
deliveredHeaders ==
    IF decision.kind = "PassThroughWithHeaders" THEN decision.headers
    ELSE request.headers

\* const roles = request.headers.get('x-user-roles');
\* if (!hasRole(roles, requiredRole)) ...
Route_Handler ==
    /\ pc = "handler"
    /\ \E r \in RoleQueries :
          LET roles == headersGet(deliveredHeaders, "x-user-roles")
              out == hasRole(roles, r)
          IN  handler' = [reached |-> TRUE, rolesHeader |-> roles, requiredRole |-> r,
                          threw |-> out.threw, allowed |-> out.value]
    /\ pc' = "idle"
    /\ UNCHANGED <<config, cli, request, tenant, userRoles, decision, calls, host,
                   resolved, previous, other, alone>>

NextRouting ==
    \/ Route_Receive
    \/ Route_Match
    \/ CheckPublic
    \/ HandleMultitenant
    \/ HandleRbac
    \/ Route_Forward
    \/ Route_Handler

SpecRouting == Init /\ [][NextRouting]_vars

----------------------------------------------------------------------------
(* Claims about the matcher, the handler and hasRole, checked under        *)
(* SpecRouting.                                                            *)

HeaderParsed == JSONparse(handler.rolesHeader)

HeaderIsNoArray ==
    \/ ~truthy(handler.rolesHeader)
    \/ ~HeaderParsed.ok
    \/ HeaderParsed.val.t # "arr"

WrittenByMiddleware ==
    handler.reached /\ decision.kind = "PassThroughWithHeaders"

\* C24: hasRole never throws; it is false for a null, empty or unparseable
\* header and for one that parses to no array; and for a role array the
\* middleware wrote into x-user-roles it is true exactly for the strings
\* that are elements of the array.
C24_HasRoleContract ==
    handler.reached =>
        /\ ~handler.threw
        /\ HeaderIsNoArray => ~handler.allowed
        /\ (WrittenByMiddleware /\ userRoles.t = "arr") =>
               (handler.allowed <=> arrayIncludes(userRoles.v, handler.requiredRole))

C24_Witness ==
    /\ WrittenByMiddleware
    /\ userRoles.t = "arr"
    /\ Len(userRoles.v) = 1
    /\ userRoles.v[1].t = "str"
    /\ userRoles.v[1].v = R_quote
    /\ handler.requiredRole = R_quote
    /\ handler.allowed

\* The path is prefix, or is below it.
IsOrIsUnder(pathname, prefix) ==
    \/ pathname = prefix
    \/ startsWith(pathname, prefix \o <<"/">>)

DocumentedAsExcluded(pathname) ==
    \/ IsOrIsUnder(pathname, <<"/">> \o M_api)
    \/ IsOrIsUnder(pathname, <<"/">> \o M_nextStatic)
    \/ IsOrIsUnder(pathname, <<"/">> \o M_nextImage)
    \/ pathname = P_favicon

Routed == request # NoRequest /\ pc # "matcher"

\* C25: the middleware runs for every path but the API routes under /api/,
\* the static assets under /_next/static/, the images under /_next/image/
\* and /favicon.ico; a path such as /apiary is processed.
C25_MatcherExcludesExactly ==
    Routed => ("middleware" \in calls <=> ~DocumentedAsExcluded(request.pathname))

\* C27: with RBAC enabled, an x-user-roles header a handler reads was
\* written by the middleware from the session token; a value the client
\* sent never reaches a handler.
C27_RolesHeaderFromSession ==
    (config.rbac /\ handler.reached /\ handler.rolesHeader # Null) =>
        /\ decision.kind = "PassThroughWithHeaders"
        /\ handler.rolesHeader = JSONstringify(userRoles)

----------------------------------------------------------------------------
(* runCLI (src/src/cli.ts, lines 11 to 56) and generateProjectStructure    *)
(* (src/src/generators/project.generator.ts, lines 18 to 47), which it     *)
(* awaits inside its try block.  Every awaited call may reject.            *)

\* The awaited calls, in the order of the text: line 17 of cli.ts, then
\* lines 27 to 43 of project.generator.ts.
CLI_STEPS ==
    <<"promptConfig", "ensureDir", "generateContextsModule", "generateHooksModule",
      "generateApiModule", "generateComponentsModule", "generateTypesModule",
      "generateMiddlewareModule", "generateConfigModule", "generateEnvTemplate",
      "generateConfigFile", "generateRootContext">>

SNAPSHOT == ".auth-bp-config.json"
SETUP_COMPLETE == "Setup Complete!"

\* The files a step writes, in the order of its writeFile calls.
stepFiles(step, cfg) ==
    CASE step = "generateContextsModule" ->
           <<"src/contexts/.context.md", "src/contexts/auth-context.ts",
             "src/contexts/auth-provider.tsx">>
      [] step = "generateHooksModule" ->
           <<"src/hooks/.context.md", "src/hooks/use-auth.ts",
             "src/hooks/use-protected-route.ts">>
               \o (IF cfg.rbac THEN <<"src/hooks/use-rbac.ts">> ELSE <<>>)
               \o (IF cfg.multitenant THEN <<"src/hooks/use-tenant.ts">> ELSE <<>>)
      [] step = "generateApiModule" ->
           <<"src/api/.context.md", "src/api/api-client.ts", "src/api/auth.api.ts",
             "src/api/endpoints.ts">>
      [] step = "generateComponentsModule" ->
           <<"src/components/.context.md", "src/components/auth-provider.tsx",
             "src/components/protected-route.tsx">>
               \o (IF cfg.rbac
                   THEN <<"src/components/can.tsx", "src/components/cannot.tsx">>
                   ELSE <<>>)
               \o (IF cfg.multitenant
                   THEN <<"src/components/tenant-selector.tsx">>
                   ELSE <<>>)
      [] step = "generateTypesModule" ->
           <<"src/types/.context.md", "src/types/auth.types.ts">>
      [] step = "generateMiddlewareModule" ->
           <<"src/middleware/.context.md", "src/middleware/auth.middleware.ts">>
      [] step = "generateConfigModule" ->
           <<"src/config/.context.md", "src/config/api.config.ts">>
      [] step = "generateEnvTemplate" -> <<".env.example", ".env.local.example">>
      [] step = "generateConfigFile" -> <<SNAPSHOT>>
      [] step = "generateRootContext" -> <<"src/.context.md">>
      [] OTHER -> <<>>

Range(f) == {f[i] : i \in DOMAIN f}

\* runCLI is called: lines 12 and 13.
CLI_Start ==
    /\ cli.pc = "idle"
    /\ pc = "idle"
    /\ cli' = [cli EXCEPT !.pc = "running", !.printed = {"Initializing authentication setup..."}]
    /\ UNCHANGED <<config, request, pc, tenant, userRoles, decision, calls, host,
                   resolved, previous, other, alone, handler>>

\* The next awaited call resolves.  promptConfig gives the configuration.
CLI_StepResolves ==
    /\ cli.pc = "running"
    /\ cli.step <= Len(CLI_STEPS)
    /\ LET step == CLI_STEPS[cli.step]
       IN  /\ IF step = "promptConfig" THEN config' \in Configs ELSE config' = config
           /\ cli' = [cli EXCEPT !.step = cli.step + 1,
                                 !.done = Append(cli.done, step),
                                 !.written = cli.written \cup Range(stepFiles(step, config))]
    /\ UNCHANGED <<request, pc, tenant, userRoles, decision, calls, host, resolved,
                   previous, other, alone, handler>>

\* The next awaited call rejects, after any number of its writes; control
\* goes to the catch block of line 52.
CLI_StepRejects ==
    /\ cli.pc = "running"
    /\ cli.step <= Len(CLI_STEPS)
    /\ LET files == stepFiles(CLI_STEPS[cli.step], config)
       IN  \E k \in 0..(IF Len(files) = 0 THEN 0 ELSE Len(files) - 1) :
              cli' = [cli EXCEPT !.pc = "catch",
                                 !.written = cli.written \cup Range(SubSeq(files, 1, k))]
    /\ UNCHANGED <<config, request, pc, tenant, userRoles, decision, calls, host,
                   resolved, previous, other, alone, handler>>

\* Lines 45 and 46 of project.generator.ts, then lines 32 to 51 of cli.ts.
CLI_Complete ==
    /\ cli.pc = "running"
    /\ cli.step = Len(CLI_STEPS) + 1
    /\ cli' = [cli EXCEPT !.pc = "returned",
                          !.printed = cli.printed \cup {"Project structure generated successfully!",
                                                        SETUP_COMPLETE, "Next Steps:"},
                          !.exitCode = 0]
    /\ UNCHANGED <<config, request, pc, tenant, userRoles, decision, calls, host,
                   resolved, previous, other, alone, handler>>

\* Lines 53 and 54.
CLI_Catch ==
    /\ cli.pc = "catch"
    /\ cli' = [cli EXCEPT !.pc = "exited",
                          !.printed = cli.printed \cup {"Error during setup:"},
                          !.exitCode = 1]
    /\ UNCHANGED <<config, request, pc, tenant, userRoles, decision, calls, host,
                   resolved, previous, other, alone, handler>>

NextCLI == CLI_Start \/ CLI_StepResolves \/ CLI_StepRejects \/ CLI_Complete \/ CLI_Catch

SpecCLI == Init /\ [][NextCLI]_vars

----------------------------------------------------------------------------
(* Claims about runCLI, checked under SpecCLI.                             *)

CLI_Failed == cli.pc \in {"catch", "exited"}

\* C26: runCLI runs its steps in order and stops at the first failure:
\* after a step failed no later step runs, the configuration snapshot is
\* not written, Setup Complete is not printed and the exit code is 1;
\* Setup Complete is printed only when every step succeeded.
C26_StopsAtFirstFailure ==
    /\ cli.done = SubSeq(CLI_STEPS, 1, Len(cli.done))
    /\ CLI_Failed =>
           /\ SNAPSHOT \notin cli.written
           /\ SETUP_COMPLETE \notin cli.printed
    /\ cli.pc = "exited" => cli.exitCode = 1
    /\ SETUP_COMPLETE \in cli.printed => cli.done = CLI_STEPS

----------------------------------------------------------------------------
(* What follows a decision: a rewritten path entering middleware() again   *)
(* with the headers and cookies of the request, and the client asking for  *)
(* the location of a redirect.                                             *)

\* The number of rewritten paths fed back, one after the other.
MaxRewrites == 3

\* How many times /mp/ stands in the path.
rewrites(pathname) ==
    Cardinality({i \in 1..(Len(pathname) - Len(S_mpSlash) + 1) :
                    SubSeq(pathname, i, i + Len(S_mpSlash) - 1) = S_mpSlash})

ReentryRequests ==
    [pathname : {S_login, S_dashboard, S_admin, P_root},
     headers : {NoHeaders}
                  \cup {[n \in {"host"} |-> h] :
                           h \in {H_acme_example_com, H_acme_localhost_3000,
                                  L_example \o <<".">> \o L_com}},
     cookies : {NoCookies}
                  \cup {[n \in {SESSION_COOKIE} |-> Token(T_hdr, p, T_sig)] :
                           p \in {B64_rolesAdmin, B64_rolesEmpty, B64_truncated}}]

Reentry_Receive ==
    /\ pc = "idle"
    /\ request' \in ReentryRequests
    /\ pc' = "public"
    /\ tenant' = Null
    /\ userRoles' = JNull
    /\ decision' = NoDecision
    /\ calls' = {}
    /\ previous' = NoPrevious
    /\ UNCHANGED <<config, handler, cli, host, resolved, other, alone>>

\* The request of the evaluation that follows: the same but for its path.
Reentry_Enter(pathname) ==
    /\ request' = [request EXCEPT !.pathname = pathname]
    /\ previous' = [request |-> request, decision |-> decision, userRoles |-> userRoles]
    /\ pc' = "public"
    /\ tenant' = Null
    /\ userRoles' = JNull
    /\ decision' = NoDecision
    /\ calls' = {}
    /\ UNCHANGED <<config, handler, cli, host, resolved, other, alone>>

\* NextResponse.rewrite(newUrl): newUrl.pathname enters middleware().
Reentry_Rewritten ==
    /\ pc = "done"
    /\ decision.kind = "Rewrite"
    /\ rewrites(decision.newPath) <= MaxRewrites
    /\ Reentry_Enter(decision.newPath)

\* NextResponse.redirect(url): the client asks for url.
Reentry_Redirected ==
    /\ pc = "done"
    /\ decision.kind = "Redirect"
    /\ Reentry_Enter(decision.location)

\* Every other decision is the last one of its request; a chain of
\* rewrites is followed for MaxRewrites passes.
Reentry_Respond ==
    /\ pc = "done"
    /\ decision.kind \notin {"Rewrite", "Redirect"} \/ rewrites(request.pathname) >= MaxRewrites
    /\ pc' = "idle"
    /\ UNCHANGED <<config, handler, cli, request, tenant, userRoles, decision, calls,
                   host, resolved, previous, other, alone>>

NextReentry ==
    \/ Reentry_Receive
    \/ CheckPublic
    \/ HandleMultitenant
    \/ HandleRbac
    \/ Reentry_Rewritten
    \/ Reentry_Redirected
    \/ Reentry_Respond

SpecReentry == Init /\ [][NextReentry]_vars

----------------------------------------------------------------------------
(* Claims about what follows a decision, checked under SpecReentry.        *)

Follows(kind) ==
    /\ pc = "done"
    /\ previous # NoPrevious
    /\ previous.decision.kind = kind

\* C28: a rewritten path that is fed back with the same host header,
\* cookies and configuration reaches a decision other than Rewrite: after
\* MaxRewrites passes the middleware does not rewrite once more.
C28_ReentryEnds ==
    ~(/\ Follows("Rewrite")
      /\ rewrites(request.pathname) >= MaxRewrites
      /\ decision.kind = "Rewrite")

\* C29: the only location of a redirect is /login, and the request for
\* /login that follows a redirect gets PassThrough, whatever the
\* configuration, the host header and the cookies.
C29_RedirectDoesNotLoop ==
    /\ (pc = "done" /\ decision.kind = "Redirect") => decision.location = S_login
    /\ Follows("Redirect") => decision = NextResponse_next

C29_Witness ==
    /\ Follows("Redirect")
    /\ previous.request.pathname = S_dashboard
    /\ request.pathname = S_login
    /\ request.cookies = previous.request.cookies
    /\ HostIs(L_example \o <<".">> \o L_com)
    /\ config.rbac /\ config.multitenant
    /\ decision = NextResponse_next

----------------------------------------------------------------------------
(* Claims about the headers of a decision, checked under Spec.             *)

Evaluating == pc \in {"public", "multitenant", "rbac"}

====
